---- MODULE Spec2Model ----
(***************************************************************************)
(* The network emulation layer of the teleoperation harness                *)
(* (src/src/communication/network.py): a NetworkSimulator owning two       *)
(* NetworkChannel objects (operator_to_robot, robot_to_operator), each     *)
(* with a queue.PriorityQueue of (delivery_time, (data, callback)) tuples  *)
(* and a daemon worker thread running _process_queue, and two              *)
(* queue.Queue destination queues fed by the send callbacks.               *)
(*                                                                         *)
(* Units.  The clock `now` counts ticks of 0.01 s (the worker's sleep).    *)
(* latency is kept in ticks; jitter is kept in 1/JitterScale ticks so that *)
(* set_network_conditions' jitter = latency * 0.1 is exact; packet_loss    *)
(* and the uniform draw of random.random() are kept in 1/ProbOne.          *)
(* random.uniform is drawn on the tick grid.                               *)
(*                                                                         *)
(* The priority queue is CPython's _heapq on a list.  The entries are      *)
(* tuples whose second component holds a Command / RobotState dataclass    *)
(* (no ordering) and a fresh closure, so comparing two entries with equal  *)
(* delivery_time raises TypeError.                                         *)
(*                                                                         *)
(* The simulation engine (src/src/simulation/simulator.py), a Simulator    *)
(* holding the robots map, the environment_objects list and the simulated  *)
(* time, is modelled next to it and exercised by SimSpec.  PyBullet is     *)
(* kept as the set of bodies it holds; the poses it reports after a        *)
(* physics step are a free choice.  Simulated time counts ticks of 0.01 s. *)
(***************************************************************************)
EXTENDS Integers, Sequences, FiniteSets, TLC

\* ---------------------------------------------------------------- bounds
MaxTime == 2        \* the clock stops advancing here
MaxSends == 3       \* send calls in one run
MaxConfigs == 1     \* set_conditions / set_network_conditions calls in one run
MaxLifecycle == 2   \* start / stop / shutdown calls in one run
NumProducers == 2   \* threads calling send_command / send_state
MaxBurst == 4       \* send calls in the run that fills one pending set
MaxReconfigs == 2   \* set_conditions calls in the run that only reconfigures

\* ------------------------------------------------------ program constants
SleepDur == 1           \* time.sleep(0.01): one tick
JitterScale == 10       \* jitter = latency * 0.1
ProbOne == 2            \* the probability 1.0, in halves
Infinity == 99          \* float('inf'), above every bandwidth argument
NoTime == -9            \* "no value" for a time-valued local
NoMsg == 0              \* "no message" (None)
NoCall == -1            \* "no receive_* call has returned yet"

Chan == {"o2r", "r2o"}
Producers == 1..NumProducers
MsgIds == 1..(IF MaxBurst > MaxSends THEN MaxBurst ELSE MaxSends)

Max(a, b) == IF a >= b THEN a ELSE b
Min(a, b) == IF a <= b THEN a ELSE b

\* ------------------------------------------------- the priority queue
\* Variant whose entry does not carry the delivery time computed by send.
EntryUnscheduled(t, id) == [t |-> 0, id |-> id]

\* An entry of NetworkChannel.queue: t is delivery_time, id names the
\* (data, callback) pair.
Entry(t, id) == [t |-> t, id |-> id]
NoEntry == Entry(NoTime, NoMsg)

\* Variant of the comparison that orders the entries latest first.
TupleGt(a, b) ==
    IF a.t > b.t THEN "T" ELSE IF a.t < b.t THEN "F" ELSE "E"

\* a < b on two queue entries (tuple comparison): "T", "F", or "E" when the
\* delivery times are equal and Python goes on to compare the payloads.
TupleLt(a, b) ==
    IF a.t < b.t THEN "T" ELSE IF a.t > b.t THEN "F" ELSE "E"

Swap(h, i, j) == [h EXCEPT ![i] = h[j], ![j] = h[i]]

\* _heapq siftdown(heap, startpos, pos), positions 1-based.
RECURSIVE SiftDown(_, _, _)
SiftDown(h, start, p) ==
    IF p <= start THEN [heap |-> h, err |-> FALSE]
    ELSE LET q == p \div 2
             c == TupleLt(h[p], h[q])
         IN  IF c = "E" THEN [heap |-> h, err |-> TRUE]
             ELSE IF c = "F" THEN [heap |-> h, err |-> FALSE]
             ELSE SiftDown(Swap(h, p, q), start, q)

\* _heapq siftup(heap, pos): move the smaller child up until a leaf is hit,
\* then sift the displaced entry down from there.
RECURSIVE SiftUpFrom(_, _, _)
SiftUpFrom(h, start, p) ==
    IF p > Len(h) \div 2 THEN SiftDown(h, start, p)
    ELSE LET l == 2 * p
             c == IF l + 1 <= Len(h) THEN TupleLt(h[l], h[l + 1]) ELSE "T"
             k == IF c = "T" THEN l ELSE l + 1
         IN  IF c = "E" THEN [heap |-> h, err |-> TRUE]
             ELSE SiftUpFrom(Swap(h, k, p), start, k)

\* heapq.heappush(heap, item): append, then siftdown; the entry stays
\* appended when a comparison raises.
HeapPush(h, item) == SiftDown(Append(h, item), 1, Len(h) + 1)

\* heapq.heappop(heap): the last entry replaces the root and is sifted; when
\* a comparison raises, the old root is returned to nobody.
HeapPop(h) ==
    LET n == Len(h)
        last == h[n]
        rest == SubSeq(h, 1, n - 1)
    IN  IF n = 1 THEN [heap |-> rest, err |-> FALSE, item |-> last]
        ELSE LET r == SiftUpFrom([rest EXCEPT ![1] = last], 1, 1)
             IN  [heap |-> r.heap, err |-> r.err,
                  item |-> IF r.err THEN NoEntry ELSE rest[1]]


\* ------------------------------------------------------------ the state
VARIABLES
    now,             \* time.time(), in ticks
    latency,         \* NetworkChannel.latency, per channel (ticks)
    jitter,          \* NetworkChannel.jitter, per channel (1/JitterScale ticks)
    packet_loss,     \* NetworkChannel.packet_loss, per channel (1/ProbOne)
    bandwidth,       \* NetworkChannel.bandwidth, per channel
    queue,           \* NetworkChannel.queue: the heap list, per channel
    running,         \* NetworkChannel.running, per channel
    wpc,             \* where each channel's worker thread is in _process_queue
    wtime,           \* the worker's local delivery_time: the head it peeked
    whand,           \* the entry the worker took with queue.get()
    wwake,           \* the clock value that ends the worker's time.sleep
    command_queue,   \* NetworkSimulator.command_queue
    state_queue,     \* NetworkSimulator.state_queue
    ppc,             \* where each producer thread is in send
    pch,             \* the channel the producer is sending on
    pid,             \* the message the producer is sending
    pdt,             \* send's local delivery_time
    pcalled,         \* history: the clock when the send call was made
    pread,           \* history: what the send call in progress has read so far
    cpc,             \* where the controlling thread is
    cop,             \* the call the controlling thread is in
    cch,             \* the channel that call is working on
    cargs,           \* the arguments of the set_conditions call in progress
    crest,           \* the channels the call still has to visit
    nsent,           \* send calls made so far
    left,            \* the calls this run may still make, by kind
    msg,             \* history: what became of each send call
    arrived,         \* history: the sink invocations of each channel, in order
    received,        \* history: what receive_command / receive_state returned
    stopReturned,    \* history: stop() has returned on the channel
    shutdownReturned,\* history: shutdown() has returned
    startRaised,     \* history: start() raised RuntimeError
    configured,      \* history: the conditions each channel was ever given
    failed,          \* history: the payloads whose sink callback raised
    lastrecv         \* history: what the last receive_* call returned

chanVars == <<latency, jitter, packet_loss, bandwidth>>
workerVars == <<wpc, wtime, whand, wwake>>
destVars == <<command_queue, state_queue>>
prodVars == <<ppc, pch, pid, pdt, pcalled, pread>>
ctlVars == <<cpc, cop, cch, cargs, crest>>
auxHist == <<configured, failed, lastrecv>>
histVars == <<msg, arrived, received, stopReturned, shutdownReturned,
              startRaised, auxHist>>
netVars == <<now, chanVars, queue, running, workerVars, destVars, prodVars,
             ctlVars, nsent, left, histVars>>

VARIABLES
    robots,              \* Simulator.robots: robot_id -> robot data
    environment_objects, \* Simulator.environment_objects
    time,                \* Simulator.time, in ticks of 0.01 s
    bodies,              \* the bodies PyBullet holds: body id -> what was loaded
    lastcall,            \* history: the last Simulator call and its outcome
    stepsum,             \* history: the dt passed to step() since construction or reset
    adds                 \* history: the add_robot calls since construction or reset

simVars == <<robots, environment_objects, time, bodies, lastcall, stepsum, adds>>

\* Two channels driven in lock-step through the same calls, with the same
\* clock readings and the same random draws, to compare two runs.
VARIABLES
    pair,            \* run -> the channel's conditions, its pending set, and
                     \* history: the outcome of every send, the payloads delivered
    ptime,           \* the clock both runs read
    pleft            \* the calls the two runs may still make

pairVars == <<pair, ptime, pleft>>

vars == <<netVars, simVars, pairVars>>

NoArgs == [latency |-> 0, jitter |-> 0, packet_loss |-> 0, bandwidth |-> 0]
NoRecord == [ch |-> "o2r", st |-> "unsent", down |-> FALSE, t |-> NoTime, seq |-> 0]
NoRead ==
    [loss |-> NoTime, time |-> NoTime, latency |-> NoTime, jitter |-> NoTime,
     quiet |-> FALSE, conf |-> NoTime]

\* The calls that change a channel's conditions.
ConfigOps == {"set_conditions", "set_network_conditions"}

\* NetworkChannel.__init__: latency 0.0, jitter 0.0, packet_loss 0.0,
\* bandwidth float('inf')
DefaultArgs ==
    [latency |-> 0, jitter |-> 0, packet_loss |-> 0, bandwidth |-> Infinity]

\* Arguments passed to NetworkChannel.set_conditions: a latency with partial
\* loss; a jitter above twice the latency; every field out of range.
LossyArgs ==
    [latency |-> 1, jitter |-> 0, packet_loss |-> 1, bandwidth |-> 5]
JitterArgs ==
    [latency |-> 0, jitter |-> 2 * JitterScale, packet_loss |-> 0,
     bandwidth |-> Infinity]
BadArgs ==
    [latency |-> -1, jitter |-> -JitterScale, packet_loss |-> ProbOne + 1,
     bandwidth |-> -1]
CondArgs == {LossyArgs, JitterArgs, BadArgs}

\* Conditions given before any traffic: every packet lost; a constant latency.
TotalLossArgs ==
    [latency |-> 0, jitter |-> 0, packet_loss |-> ProbOne, bandwidth |-> Infinity]
LatencyArgs ==
    [latency |-> 1, jitter |-> 0, packet_loss |-> 0, bandwidth |-> Infinity]

\* Arguments passed to NetworkSimulator.set_network_conditions.
NetArgs ==
    { [latency |-> 2, packet_loss |-> 1, bandwidth |-> 5],
      [latency |-> -1, packet_loss |-> ProbOne + 1, bandwidth |-> -1] }

ClampLatency(x) == Max(0, x)
ClampJitter(x) == Max(0, x)
\* Variant of the packet_loss clamp without the upper limit.
ClampLossBelow(x) == Max(0, x)
ClampLoss(x) == Max(0, Min(ProbOne, x))
ClampBandwidth(x) == Max(0, x)

\* The conditions a channel holds once set_conditions(a) has run alone.
Clamped(a) ==
    [latency |-> ClampLatency(a.latency), jitter |-> ClampJitter(a.jitter),
     packet_loss |-> ClampLoss(a.packet_loss),
     bandwidth |-> ClampBandwidth(a.bandwidth)]

\* What one run may call: so many send_command calls ("o2r"), send_state
\* calls ("r2o"), set_conditions / set_network_conditions calls made while
\* traffic flows ("conf") and start / stop / shutdown calls ("life"), from so
\* many producer threads ("threads"); whether the client polls receive_command
\* / receive_state ("recv"), and how many sink callbacks raise ("raise").
Calls(o, r, c, l, n, v, x) ==
    [k \in {"o2r", "r2o", "conf", "life", "threads", "recv", "raise"} |->
        IF k = "o2r" THEN o ELSE IF k = "r2o" THEN r ELSE IF k = "conf" THEN c
        ELSE IF k = "life" THEN l ELSE IF k = "threads" THEN n
        ELSE IF k = "recv" THEN v ELSE x]

\* A run: the calls it may make, and the arguments of the set_conditions
\* call made on both channels before any traffic (src/main.py configures the
\* network right after constructing it); DefaultArgs when there was none.
Scenarios ==
    { [calls |-> Calls(MaxSends, 0, 0, 0, 1, 1, 0), cond |-> DefaultArgs],
      [calls |-> Calls(MaxSends, 0, 0, 0, 1, 0, 0), cond |-> JitterArgs],
      [calls |-> Calls(MaxSends - 1, 0, 0, 0, NumProducers, 0, 0), cond |-> JitterArgs],
      [calls |-> Calls(1, 1, 0, 0, NumProducers, 0, 0), cond |-> LossyArgs],
      [calls |-> Calls(MaxSends - 1, 0, MaxConfigs, 0, 1, 0, 0), cond |-> DefaultArgs],
      [calls |-> Calls(1, 1, 0, MaxLifecycle, 1, 0, 0), cond |-> DefaultArgs],
      [calls |-> Calls(1, 1, 0, MaxLifecycle - 1, 1, 1, 0), cond |-> DefaultArgs],
      [calls |-> Calls(MaxSends - 1, 1, 0, 0, 1, 1, 0), cond |-> TotalLossArgs],
      [calls |-> Calls(MaxSends - 1, 0, 0, 0, 1, 1, 0), cond |-> LatencyArgs],
      [calls |-> Calls(MaxSends - 1, 0, 0, 0, 1, 1, 1), cond |-> DefaultArgs],
      [calls |-> Calls(MaxBurst, 0, 0, 0, 1, 0, 0), cond |-> DefaultArgs],
      [calls |-> Calls(0, 0, MaxReconfigs, 0, 1, 0, 0), cond |-> LossyArgs] }

\* Variant of the constructor that creates the channels without starting them.
StartedNever(c) == FALSE

\* self.operator_to_robot.start() and self.robot_to_operator.start() in
\* NetworkSimulator.__init__ set the running flag of channel c.
Started(c) == TRUE

\* NetworkSimulator.__init__ has returned: both channels were created and
\* started, both destination queues are empty.
NetInit(sc) ==
    /\ now = 0
    /\ left = sc.calls
    /\ latency = [c \in Chan |-> ClampLatency(sc.cond.latency)]
    /\ jitter = [c \in Chan |-> ClampJitter(sc.cond.jitter)]
    /\ packet_loss = [c \in Chan |-> ClampLoss(sc.cond.packet_loss)]
    /\ bandwidth = [c \in Chan |-> ClampBandwidth(sc.cond.bandwidth)]
    /\ configured = [c \in Chan |-> {Clamped(sc.cond)}]
    /\ queue = [c \in Chan |-> <<>>]
    /\ running = [c \in Chan |-> Started(c)]
    /\ wpc = [c \in Chan |-> "loop"]
    /\ wtime = [c \in Chan |-> NoTime]
    /\ whand = [c \in Chan |-> NoEntry]
    /\ wwake = [c \in Chan |-> NoTime]
    /\ command_queue = <<>>
    /\ state_queue = <<>>
    /\ ppc = [p \in Producers |-> "idle"]
    /\ pch = [p \in Producers |-> "o2r"]
    /\ pid = [p \in Producers |-> NoMsg]
    /\ pdt = [p \in Producers |-> NoTime]
    /\ pcalled = [p \in Producers |-> NoTime]
    /\ pread = [p \in Producers |-> NoRead]
    /\ cpc = "idle"
    /\ cop = "none"
    /\ cch = "o2r"
    /\ cargs = NoArgs
    /\ crest = <<>>
    /\ nsent = 0
    /\ msg = [i \in MsgIds |-> NoRecord]
    /\ arrived = [c \in Chan |-> <<>>]
    /\ received = [c \in Chan |-> <<>>]
    /\ stopReturned = [c \in Chan |-> FALSE]
    /\ shutdownReturned = FALSE
    /\ startRaised = FALSE
    /\ failed = {}
    /\ lastrecv = [c \in Chan |-> NoCall]

\* ------------------------------------------------------------- Simulator
\* Bounds of the simulator runs.
MaxSimTime == 3
MaxBodies == 2
MaxObjects == 2

\* self.step(0.01) at the end of add_robot, in ticks.
AddRobotDt == 1

RobotIds == {"r1", "r2"}
Poses == 1..2
\* Arguments of add_robot: a key of ROBOT_URDF_MAP at one pose, and a type
\* that is not a key, for which the default URDF is loaded, at another.
RobotArgs == {[type |-> "arm_6dof", pose |-> 1], [type |-> "hexapod", pose |-> 2]}
\* Arguments of add_environment_object: a key of OBJECT_URDF_MAP, and a type
\* that is not one.
ObjectArgs == {[type |-> "cube", pose |-> 1], [type |-> "anvil", pose |-> 2]}
DtValues == 1..2
\* The number of non-fixed joints of a loaded robot URDF, as p.getNumJoints
\* and p.getJointInfo report them: the arms, platforms and grippers of
\* ROBOT_URDF_MAP all have movable joints.
JointCounts == {2}
\* Arguments of remove_environment_object: below, within and beyond the list.
ObjectIds == (-1)..MaxObjects

NoPose == 0
NoState == [joint_states |-> <<>>, pose |-> NoPose, timestamp |-> 0]
SimCall(op) ==
    [op |-> op, id |-> "", type |-> "", pose |-> NoPose, ret |-> NoCall,
     raised |-> "none"]

\* Simulator.__init__: no robots, no environment objects, time 0.0; PyBullet
\* holds the ground plane only, which is left out of bodies.
SimStart ==
    /\ robots = <<>>
    /\ environment_objects = <<>>
    /\ time = 0
    /\ bodies = <<>>
    /\ lastcall = SimCall("none")
    /\ stepsum = 0
    /\ adds = 0

Runs == {"a", "b"}

\* NetworkChannel.__init__ in both runs: default conditions, nothing pending.
NewChannel == [cond |-> DefaultArgs, heap |-> <<>>, sched |-> <<>>, order |-> <<>>]

\* The pair of runs with so many send and set_conditions calls to make.
PairStart(sends, confs) ==
    /\ pair = [x \in Runs |-> NewChannel]
    /\ ptime = 0
    /\ pleft = [sends |-> sends, confs |-> confs]

\* NetworkSimulator.__init__ and Simulator.__init__ have returned.
Init ==
    /\ \E sc \in Scenarios : NetInit(sc)
    /\ SimStart
    /\ PairStart(0, 0)

\* The network is left idle while the simulator is exercised.
IdleScenario == [calls |-> Calls(0, 0, 0, 0, 1, 0, 0), cond |-> DefaultArgs]

SimInit ==
    /\ NetInit(IdleScenario)
    /\ SimStart
    /\ PairStart(0, 0)

\* Variant of step that advances the clock by one tick whatever dt is.
StepTimeFixed(t, dt) == t + 1

\* self.time += dt
StepTime(t, dt) == t + dt

\* joint_indices: the indices of the non-fixed joints of the loaded body.
JointIndices(n) == [k \in 1..n |-> k]

\* joint_states: one JointState per entry of joint_indices.
JointStates(idx) == [k \in 1..Len(idx) |-> [name |-> idx[k]]]

\* The loop of step over self.robots: every robot's state is rebuilt from
\* what PyBullet reports after stepSimulation, a pose that the physics
\* decides and one joint state per non-fixed joint, stamped with self.time.
UpdatedStates(rs, t) ==
    { [i \in DOMAIN rs |->
          [rs[i] EXCEPT !.state = [joint_states |-> JointStates(rs[i].joint_indices),
                                   pose |-> f[i],
                                   timestamp |-> t]]] :
      f \in [DOMAIN rs -> Poses] }

\* Simulator.step(dt)
Step(dt) ==
    /\ time + dt <= MaxSimTime
    /\ time' = StepTime(time, dt)
    /\ robots' \in UpdatedStates(robots, StepTime(time, dt))
    /\ stepsum' = stepsum + dt
    /\ lastcall' = SimCall("step")
    /\ UNCHANGED <<environment_objects, bodies, adds, netVars, pairVars>>

\* p.loadURDF returns the unique id of the new body: an id no live body has.
LoadURDF(bs) == CHOOSE b \in 1..(MaxBodies + 1) : b \notin DOMAIN bs

\* What PyBullet holds once kind has been loaded as body b.
Loaded(bs, b, kind) ==
    [x \in DOMAIN bs \cup {b} |-> IF x = b THEN kind ELSE bs[x]]

\* p.removeBody(b)
RemoveBody(bs, b) == [x \in DOMAIN bs \ {b} |-> bs[x]]

\* Variant of add_robot that leaves the old body of a replaced robot in place.
BodiesKept(id) == bodies

\* _remove_robot, as called by add_robot: p.removeBody of the robot's body
\* if the id is registered.
BodiesWithoutRobot(id) ==
    IF id \in DOMAIN robots THEN RemoveBody(bodies, robots[id].body_id)
    ELSE bodies

\* _remove_robot: del self.robots[robot_id] if the id is registered.
RobotsWithout(id) == [i \in DOMAIN robots \ {id} |-> robots[i]]

\* Simulator.add_robot(robot_id, robot_type, pose): removes a robot already
\* registered under the id, loads the URDF, stores the robot data with an
\* empty joint_states list and the given pose, then calls self.step(0.01).
AddRobot(id, type, pose) ==
    /\ time + AddRobotDt <= MaxSimTime
    /\ LET bs == BodiesWithoutRobot(id)
           rs == RobotsWithout(id)
           b == LoadURDF(bs)
       IN  /\ Cardinality(DOMAIN bs) < MaxBodies
           /\ bodies' = Loaded(bs, b, "robot")
           /\ \E n \in JointCounts :
                LET r == [type |-> type, pose |-> pose, body_id |-> b,
                          joint_indices |-> JointIndices(n),
                          state |-> [joint_states |-> <<>>, pose |-> pose,
                                     timestamp |-> time]]
                    rs1 == [i \in DOMAIN rs \cup {id} |->
                               IF i = id THEN r ELSE rs[i]]
                IN  robots' \in UpdatedStates(rs1, StepTime(time, AddRobotDt))
    /\ time' = StepTime(time, AddRobotDt)
    /\ adds' = adds + 1
    /\ lastcall' = [SimCall("add_robot") EXCEPT !.id = id, !.type = type,
                                                !.pose = pose]
    /\ UNCHANGED <<environment_objects, stepsum, netVars, pairVars>>

\* Variant of the registration test that finds every id registered.
RegisteredAny(id) == TRUE

\* if robot_id not in self.robots: raise KeyError(...)
Registered(id) == id \in DOMAIN robots

\* return self.robots[robot_id]["state"]: what get_robot_state(id) returns
\* in the current state.
StateOf(id) == IF id \in DOMAIN robots THEN robots[id].state ELSE NoState

\* Simulator.get_robot_state(robot_id)
GetRobotState(id) ==
    /\ lastcall' = [SimCall("get_robot_state") EXCEPT
                       !.id = id,
                       !.raised = IF Registered(id) THEN "none" ELSE "KeyError"]
    /\ UNCHANGED <<robots, environment_objects, time, bodies, stepsum, adds,
                   netVars, pairVars>>

\* Simulator.apply_command(robot_id, command): after the registration test
\* it only sets motor targets inside PyBullet.
ApplyCommand(id) ==
    /\ lastcall' = [SimCall("apply_command") EXCEPT
                       !.id = id,
                       !.raised = IF Registered(id) THEN "none" ELSE "KeyError"]
    /\ UNCHANGED <<robots, environment_objects, time, bodies, stepsum, adds,
                   netVars, pairVars>>

\* Variant that numbers a new object by the count of objects not removed.
NextObjectIdLive(objs) ==
    Cardinality({k \in 1..Len(objs) : ~objs[k].removed})

\* object_id = len(self.environment_objects)
NextObjectId(objs) == Len(objs)

\* Simulator.add_environment_object(object_type, pose)
AddEnvironmentObject(type, pose) ==
    /\ Len(environment_objects) < MaxObjects
    /\ Cardinality(DOMAIN bodies) < MaxBodies
    /\ LET b == LoadURDF(bodies)
           oid == NextObjectId(environment_objects)
       IN  /\ bodies' = Loaded(bodies, b, "object")
           /\ environment_objects' =
                 Append(environment_objects,
                        [type |-> type, pose |-> pose, id |-> oid,
                         body_id |-> b, removed |-> FALSE])
           /\ lastcall' = [SimCall("add_environment_object") EXCEPT
                              !.type = type, !.pose = pose, !.ret = oid]
    /\ UNCHANGED <<robots, time, stepsum, adds, netVars, pairVars>>

\* Simulator.remove_environment_object(object_id), called with an id out of
\* range or with the id of an object that has not been removed yet.
RemoveEnvironmentObject(oid) ==
    /\ IF oid < 0 \/ oid >= Len(environment_objects)
       THEN /\ lastcall' = [SimCall("remove_environment_object") EXCEPT
                               !.ret = oid, !.raised = "IndexError"]
            /\ UNCHANGED <<environment_objects, bodies>>
       ELSE /\ ~environment_objects[oid + 1].removed
            /\ bodies' = RemoveBody(bodies, environment_objects[oid + 1].body_id)
            /\ environment_objects' =
                  [environment_objects EXCEPT ![oid + 1].removed = TRUE]
            /\ lastcall' = [SimCall("remove_environment_object") EXCEPT
                               !.ret = oid]
    /\ UNCHANGED <<robots, time, stepsum, adds, netVars, pairVars>>

\* Simulator.reset()
Reset ==
    /\ robots' = <<>>
    /\ environment_objects' = <<>>
    /\ bodies' = <<>>
    /\ time' = 0
    /\ stepsum' = 0
    /\ adds' = 0
    /\ lastcall' = SimCall("reset")
    /\ UNCHANGED <<netVars, pairVars>>

SimNext ==
    \/ \E dt \in DtValues : Step(dt)
    \/ \E id \in RobotIds, a \in RobotArgs : AddRobot(id, a.type, a.pose)
    \/ \E id \in RobotIds : GetRobotState(id)
    \/ \E id \in RobotIds : ApplyCommand(id)
    \/ \E a \in ObjectArgs : AddEnvironmentObject(a.type, a.pose)
    \/ \E oid \in ObjectIds : RemoveEnvironmentObject(oid)
    \/ Reset

SimSpec == SimInit /\ [][SimNext]_vars

\* the clock advances
Tick ==
    /\ now < MaxTime
    /\ now' = now + 1
    /\ UNCHANGED <<chanVars, queue, running, workerVars, destVars, prodVars,
                   ctlVars, nsent, left, histVars,
                   simVars, pairVars>>


\* ------------------------------------------------------------------ send
\* The values random.random() can return, in 1/ProbOne: 0.0 and 0.5.
Draws == 0..(ProbOne - 1)

\* Variant that draws from uniform(-j, j).
OffsetsFull(j) ==
    LET m == j \div JitterScale + 1
    IN  {o \in (-m)..m : -j <= JitterScale * o /\ JitterScale * o <= j}

\* The values random.uniform(-j/2, j/2) can return on the tick grid, j in
\* 1/JitterScale ticks.
Offsets(j) ==
    LET m == j \div (2 * JitterScale) + 1
    IN  {o \in (-m)..m : -j <= 2 * JitterScale * o /\ 2 * JitterScale * o <= j}

\* Variant of the loss roll that also drops on a draw equal to packet_loss.
DroppedOrEqual(r, c) == r <= packet_loss[c]

\* if random.random() < self.packet_loss: return
Dropped(r, c) == r < packet_loss[c]

\* send_command / send_state call NetworkChannel.send, which first rolls for
\* packet loss.  msg records what became of the call: "unsent", "sending",
\* "dropped", "queued", or "raised" (queued, and the put raised TypeError);
\* down records that stop() had returned on the channel when send was called,
\* t the delivery time put on the queue, seq the rank of the put among all puts.
\* Variant in which a send selected for loss goes on to schedule the payload.
AfterDropGoOn == "time"

\* return: a send selected for loss is over.
AfterDrop == "idle"

SendRoll(p, c) ==
    /\ ppc[p] = "idle"
    /\ p <= left["threads"]
    /\ left[c] > 0
    /\ left' = [left EXCEPT ![c] = @ - 1]
    /\ nsent' = nsent + 1
    /\ \E r \in Draws :
         IF Dropped(r, c) /\ AfterDrop = "idle"
         THEN /\ msg' = [msg EXCEPT ![nsent + 1] =
                            [@ EXCEPT !.ch = c, !.st = "dropped",
                                      !.down = stopReturned[c]]]
              /\ UNCHANGED prodVars
         ELSE /\ msg' = [msg EXCEPT ![nsent + 1] =
                            [@ EXCEPT !.ch = c,
                                      !.st = IF Dropped(r, c) THEN "dropped"
                                             ELSE "sending",
                                      !.down = stopReturned[c]]]
              /\ ppc' = [ppc EXCEPT ![p] = "time"]
              /\ pch' = [pch EXCEPT ![p] = c]
              /\ pid' = [pid EXCEPT ![p] = nsent + 1]
              /\ pcalled' = [pcalled EXCEPT ![p] = now]
              /\ pread' = [pread EXCEPT ![p] =
                              [NoRead EXCEPT !.loss = packet_loss[c],
                                             !.quiet = cop \notin ConfigOps,
                                             !.conf = left["conf"]]]
              /\ UNCHANGED pdt
    /\ UNCHANGED <<now, chanVars, queue, running, workerVars, destVars,
                   ctlVars, arrived, received,
                   stopReturned, shutdownReturned, startRaised, auxHist,
                   simVars, pairVars>>

SendCommand(p) == SendRoll(p, "o2r")

SendState(p) == SendRoll(p, "r2o")

\* delivery_time = time.time() + self.latency
DeliveryTime(t, c) == t + latency[c]

SendTime(p) ==
    /\ ppc[p] = "time"
    /\ pdt' = [pdt EXCEPT ![p] = DeliveryTime(now, pch[p])]
    /\ pread' = [pread EXCEPT ![p] = [@ EXCEPT !.time = now,
                                                !.latency = latency[pch[p]]]]
    /\ ppc' = [ppc EXCEPT ![p] = "jitter"]
    /\ UNCHANGED <<now, chanVars, queue, running, workerVars, destVars,
                   pch, pid, pcalled, ctlVars, nsent, left, histVars,
                   simVars, pairVars>>

\* if self.jitter > 0:
\*     delivery_time += random.uniform(-self.jitter/2, self.jitter/2)
\* The three reads of self.jitter are taken in one step: a draw from bounds
\* read on both sides of a concurrent set_conditions lies within the bounds
\* of the larger of the two jitters, so it is a draw this step also makes.
Jittered(t, c) ==
    IF jitter[c] > 0 THEN {t + o : o \in Offsets(jitter[c])} ELSE {t}

SendJitter(p) ==
    /\ ppc[p] = "jitter"
    /\ \E t \in Jittered(pdt[p], pch[p]) : pdt' = [pdt EXCEPT ![p] = t]
    /\ pread' = [pread EXCEPT ![p] = [@ EXCEPT !.jitter = jitter[pch[p]]]]
    /\ ppc' = [ppc EXCEPT ![p] = "put"]
    /\ UNCHANGED <<now, chanVars, queue, running, workerVars, destVars,
                   pch, pid, pcalled, ctlVars, nsent, left, histVars,
                   simVars, pairVars>>

\* self.queue.put((delivery_time, (data, callback))): under the queue's
\* mutex; a TypeError of the heap push propagates out of send.
QueuePut(h, e) == HeapPush(h, e)

Queued(i) == msg[i].st \in {"queued", "raised"}

\* Variant with a queue of capacity one, whose put waits for room.
FullAtOne(h) == Len(h) >= 1

\* self.queue = queue.PriorityQueue(): no maxsize, so put never finds the
\* queue full and never waits for the worker to take an entry.
Full(h) == FALSE

SendPut(p) ==
    /\ ppc[p] = "put"
    /\ ~Full(queue[pch[p]])
    /\ LET r == QueuePut(queue[pch[p]], Entry(pdt[p], pid[p]))
       IN  /\ queue' = [queue EXCEPT ![pch[p]] = r.heap]
           /\ msg' = [msg EXCEPT ![pid[p]] =
                         [@ EXCEPT !.st = IF r.err THEN "raised" ELSE "queued",
                                   !.t = pdt[p],
                                   !.seq = Cardinality({i \in MsgIds : Queued(i)}) + 1]]
    /\ ppc' = [ppc EXCEPT ![p] = "idle"]
    /\ pid' = [pid EXCEPT ![p] = NoMsg]
    /\ pdt' = [pdt EXCEPT ![p] = NoTime]
    /\ pcalled' = [pcalled EXCEPT ![p] = NoTime]
    /\ pread' = [pread EXCEPT ![p] = NoRead]
    /\ UNCHANGED <<now, chanVars, running, workerVars, destVars, pch,
                   ctlVars, nsent, left, arrived, received,
                   stopReturned, shutdownReturned, startRaised, auxHist,
                   simVars, pairVars>>

\* ------------------------------------------------------- _process_queue
\* while self.running:
\* Variant of the loop test that never sees the flag cleared.
KeepsRunningAlways(c) == TRUE

\* while self.running: the test of the flag at the top of the loop.
KeepsRunning(c) == running[c]

WLoop(c) ==
    /\ wpc[c] = "loop"
    /\ wpc' = [wpc EXCEPT ![c] = IF KeepsRunning(c) THEN "head" ELSE "done"]
    /\ UNCHANGED <<now, chanVars, queue, running, wtime, whand, wwake,
                   destVars, prodVars, ctlVars, nsent, left, histVars,
                   simVars, pairVars>>

\* Variant of the due test that releases the head whatever its delivery time.
MutDue(t, d) == TRUE

\* if time.time() >= delivery_time
Due(t, d) == t >= d

\* time.sleep(0.01): the clock value that ends a sleep begun at t.  The last
\* clock value, MaxTime, stands for every later time, so a sleep begun there
\* is over at once.
SleepUntil(t) == Min(t + SleepDur, MaxTime)

\* if self.queue.empty(): time.sleep(0.01); continue
\* delivery_time, _ = self.queue.queue[0]
\* if time.time() >= delivery_time: ... else: time.sleep(0.01)
\* The emptiness test, the peek and the clock read are one step: only this
\* thread removes entries, and an entry put between the peek and the clock
\* read can only lower the head, so the test on the stale head passes only
\* where the test on the current head passes too.
WHead(c) ==
    /\ wpc[c] = "head"
    /\ IF queue[c] # <<>> /\ Due(now, queue[c][1].t)
       THEN /\ wpc' = [wpc EXCEPT ![c] = "get"]
            /\ wtime' = [wtime EXCEPT ![c] = queue[c][1].t]
            /\ UNCHANGED wwake
       ELSE /\ wpc' = [wpc EXCEPT ![c] = "sleep"]
            /\ wwake' = [wwake EXCEPT ![c] = SleepUntil(now)]
            /\ wtime' = [wtime EXCEPT ![c] =
                            IF queue[c] # <<>> THEN queue[c][1].t ELSE @]
    /\ UNCHANGED <<now, chanVars, queue, running, whand,
                   destVars, prodVars, ctlVars, nsent, left, histVars,
                   simVars, pairVars>>

\* Variant of get() that returns the head and leaves it in the pending set.
QueuePeek(h) == [HeapPop(h) EXCEPT !.heap = h]

\* _, (data, callback) = self.queue.get(): under the queue's mutex; a
\* TypeError of the heap pop is caught by the loop's except clause.
QueueGet(h) == HeapPop(h)

\* Variant in which an exception ends _process_queue.
OnExceptionExit == "done"

\* except Exception as e: self.logger.error(...); the while loop goes on.
OnException == "loop"

WGet(c) ==
    /\ wpc[c] = "get"
    /\ LET r == QueueGet(queue[c])
       IN  /\ queue' = [queue EXCEPT ![c] = r.heap]
           /\ whand' = [whand EXCEPT ![c] = r.item]
           /\ wpc' = [wpc EXCEPT ![c] = IF r.err THEN OnException ELSE "call"]
           /\ wtime' = [wtime EXCEPT ![c] = IF r.err THEN NoTime ELSE @]
    /\ UNCHANGED <<now, chanVars, running, wwake,
                   destVars, prodVars, ctlVars, nsent, left, histVars,
                   simVars, pairVars>>

\* Variant of the destination queue's put that inserts at the front.
DestPutFront(q, x) == <<x>> \o q

\* self.command_queue.put(data) / self.state_queue.put(data) on a queue.Queue
DestPut(q, x) == Append(q, x)

\* Variant in which both callbacks put on command_queue.
SinkShared(c) == "command_queue"

\* The destination queue of the callback handed to the channel: send_command
\* sends command_callback on operator_to_robot, send_state sends
\* state_callback on robot_to_operator.
Sink(c) == IF c = "o2r" THEN "command_queue" ELSE "state_queue"

\* callback(data): command_callback / state_callback put the payload on the
\* destination queue of the channel.
WCall(c) ==
    /\ wpc[c] = "call"
    /\ command_queue' = IF Sink(c) = "command_queue"
                        THEN DestPut(command_queue, whand[c].id)
                        ELSE command_queue
    /\ state_queue' = IF Sink(c) = "state_queue"
                      THEN DestPut(state_queue, whand[c].id)
                      ELSE state_queue
    /\ arrived' = [arrived EXCEPT ![c] = Append(@, whand[c])]
    /\ whand' = [whand EXCEPT ![c] = NoEntry]
    /\ wtime' = [wtime EXCEPT ![c] = NoTime]
    /\ wpc' = [wpc EXCEPT ![c] = "loop"]
    /\ UNCHANGED <<now, chanVars, queue, running, wwake,
                   prodVars, ctlVars, nsent, left, msg, received,
                   stopReturned, shutdownReturned, startRaised, auxHist,
                   simVars, pairVars>>

\* callback(data) raises: a callback handed to NetworkChannel.send that
\* fails puts nothing on a destination queue; the loop's except clause
\* catches the exception.
WCallRaise(c) ==
    /\ wpc[c] = "call"
    /\ left["raise"] > 0
    /\ left' = [left EXCEPT !["raise"] = @ - 1]
    /\ arrived' = [arrived EXCEPT ![c] = Append(@, whand[c])]
    /\ failed' = failed \cup {whand[c].id}
    /\ whand' = [whand EXCEPT ![c] = NoEntry]
    /\ wtime' = [wtime EXCEPT ![c] = NoTime]
    /\ wpc' = [wpc EXCEPT ![c] = OnException]
    /\ UNCHANGED <<now, chanVars, queue, running, wwake, destVars,
                   prodVars, ctlVars, nsent, msg, received,
                   stopReturned, shutdownReturned, startRaised,
                   configured, lastrecv,
                   simVars, pairVars>>

\* time.sleep(0.01) returns, and the loop tests self.running again
WWake(c) ==
    /\ wpc[c] = "sleep"
    /\ now >= wwake[c]
    /\ wwake' = [wwake EXCEPT ![c] = NoTime]
    /\ wtime' = [wtime EXCEPT ![c] = NoTime]
    /\ wpc' = [wpc EXCEPT ![c] = IF KeepsRunning(c) THEN "head" ELSE "done"]
    /\ UNCHANGED <<now, chanVars, queue, running, whand,
                   destVars, prodVars, ctlVars, nsent, left, histVars,
                   simVars, pairVars>>

\* ------------------------------------------------------- set_conditions
\* Variant that derives the jitter as 20% of the latency.
DeriveJitterFifth(l) == (l * JitterScale) \div 5

\* jitter = latency * 0.1, in 1/JitterScale ticks
DeriveJitter(l) == (l * JitterScale) \div 10

\* NetworkChannel.set_conditions(latency, jitter, packet_loss, bandwidth) is
\* called on channel c.
SetConditions(c, a) ==
    /\ cpc = "idle"
    /\ left["conf"] > 0
    /\ left' = [left EXCEPT !["conf"] = @ - 1]
    /\ cpc' = "sc_latency"
    /\ cop' = "set_conditions"
    /\ cch' = c
    /\ cargs' = a
    /\ crest' = <<>>
    /\ configured' = [configured EXCEPT ![c] = @ \cup {Clamped(a)}]
    /\ UNCHANGED <<now, chanVars, queue, running, workerVars, destVars,
                   prodVars, nsent, msg, arrived, received, stopReturned,
                   shutdownReturned, startRaised, failed, lastrecv,
                   simVars, pairVars>>

\* NetworkSimulator.set_network_conditions(latency, packet_loss, bandwidth):
\* the same set_conditions call on operator_to_robot, then robot_to_operator.
SetNetworkConditions(a) ==
    /\ cpc = "idle"
    /\ left["conf"] > 0
    /\ left' = [left EXCEPT !["conf"] = @ - 1]
    /\ cpc' = "sc_latency"
    /\ cop' = "set_network_conditions"
    /\ cch' = "o2r"
    /\ cargs' = [latency |-> a.latency, jitter |-> DeriveJitter(a.latency),
                 packet_loss |-> a.packet_loss, bandwidth |-> a.bandwidth]
    /\ crest' = <<"r2o">>
    /\ configured' = [c \in Chan |-> configured[c] \cup {Clamped(cargs')}]
    /\ UNCHANGED <<now, chanVars, queue, running, workerVars, destVars,
                   prodVars, nsent, msg, arrived, received, stopReturned,
                   shutdownReturned, startRaised, failed, lastrecv,
                   simVars, pairVars>>

\* Variant in which a call can raise the stored latency but never lower it.
NewLatencyAtLeast(c, a) == Max(latency[c], ClampLatency(a.latency))

\* The value set_conditions(a) stores in the latency field of channel c.
NewLatency(c, a) == ClampLatency(a.latency)

\* self.latency = max(0.0, latency)
SetLatency ==
    /\ cpc = "sc_latency"
    /\ latency' = [latency EXCEPT ![cch] = NewLatency(cch, cargs)]
    /\ cpc' = "sc_jitter"
    /\ UNCHANGED <<now, jitter, packet_loss, bandwidth, queue, running,
                   workerVars, destVars, prodVars, cop, cch, cargs, crest,
                   nsent, left, histVars,
                   simVars, pairVars>>

\* self.jitter = max(0.0, jitter)
SetJitter ==
    /\ cpc = "sc_jitter"
    /\ jitter' = [jitter EXCEPT ![cch] = ClampJitter(cargs.jitter)]
    /\ cpc' = "sc_loss"
    /\ UNCHANGED <<now, latency, packet_loss, bandwidth, queue, running,
                   workerVars, destVars, prodVars, cop, cch, cargs, crest,
                   nsent, left, histVars,
                   simVars, pairVars>>

\* self.packet_loss = max(0.0, min(1.0, packet_loss))
SetPacketLoss ==
    /\ cpc = "sc_loss"
    /\ packet_loss' = [packet_loss EXCEPT ![cch] = ClampLoss(cargs.packet_loss)]
    /\ cpc' = "sc_bandwidth"
    /\ UNCHANGED <<now, latency, jitter, bandwidth, queue, running,
                   workerVars, destVars, prodVars, cop, cch, cargs, crest,
                   nsent, left, histVars,
                   simVars, pairVars>>

\* self.bandwidth = max(0.0, bandwidth); set_conditions returns, and
\* set_network_conditions goes on to the other channel.
SetBandwidth ==
    /\ cpc = "sc_bandwidth"
    /\ bandwidth' = [bandwidth EXCEPT ![cch] = ClampBandwidth(cargs.bandwidth)]
    /\ IF crest # <<>>
       THEN /\ cpc' = "sc_latency"
            /\ cch' = Head(crest)
            /\ crest' = Tail(crest)
            /\ UNCHANGED <<cop, cargs>>
       ELSE /\ cpc' = "idle"
            /\ cop' = "none"
            /\ cargs' = NoArgs
            /\ UNCHANGED <<cch, crest>>
    /\ UNCHANGED <<now, latency, jitter, packet_loss, queue, running,
                   workerVars, destVars, prodVars, nsent, left,
                   histVars,
                   simVars, pairVars>>

\* ------------------------------------------------ start, stop, shutdown
\* NetworkChannel.stop(): self.running = False, then self.thread.join().
Stop(c) ==
    /\ cpc = "idle"
    /\ left["life"] > 0
    /\ left' = [left EXCEPT !["life"] = @ - 1]
    /\ running' = [running EXCEPT ![c] = FALSE]
    /\ cpc' = "join"
    /\ cop' = "stop"
    /\ cch' = c
    /\ crest' = <<>>
    /\ UNCHANGED <<now, chanVars, queue, workerVars, destVars, prodVars,
                   cargs, nsent, histVars,
                   simVars, pairVars>>

\* NetworkSimulator.shutdown(): operator_to_robot.stop(), then
\* robot_to_operator.stop().
Shutdown ==
    /\ cpc = "idle"
    /\ left["life"] > 0
    /\ left' = [left EXCEPT !["life"] = @ - 1]
    /\ running' = [running EXCEPT !["o2r"] = FALSE]
    /\ cpc' = "join"
    /\ cop' = "shutdown"
    /\ cch' = "o2r"
    /\ crest' = <<"r2o">>
    /\ UNCHANGED <<now, chanVars, queue, workerVars, destVars, prodVars,
                   cargs, nsent, histVars,
                   simVars, pairVars>>

\* Variant of join() that does not wait for the worker at all.
JoinedNoWait(c) == TRUE

\* Variant of join() that returns as soon as the running flag is cleared.
JoinedOnFlag(c) == ~running[c]

\* Variant of join() that can be passed only once per thread.
JoinedOnce(c) == wpc[c] = "done" /\ ~stopReturned[c]

\* thread.join() returns once the worker has left _process_queue.
Joined(c) == wpc[c] = "done"

\* stop() returns; shutdown() goes on to stop the other channel.
Join ==
    /\ cpc = "join"
    /\ Joined(cch)
    /\ stopReturned' = [stopReturned EXCEPT ![cch] = TRUE]
    /\ IF crest # <<>>
       THEN /\ running' = [running EXCEPT ![Head(crest)] = FALSE]
            /\ cch' = Head(crest)
            /\ crest' = Tail(crest)
            /\ UNCHANGED <<cpc, cop, shutdownReturned>>
       ELSE /\ cpc' = "idle"
            /\ cop' = "none"
            /\ shutdownReturned' = (shutdownReturned \/ cop = "shutdown")
            /\ UNCHANGED <<running, cch, crest>>
    /\ UNCHANGED <<now, chanVars, queue, workerVars, destVars, prodVars,
                   cargs, nsent, left, msg, arrived, received,
                   startRaised, auxHist,
                   simVars, pairVars>>

\* NetworkChannel.start(): self.running = True, then self.thread.start(),
\* which raises RuntimeError because __init__ already started the thread.
Start(c) ==
    /\ cpc = "idle"
    /\ left["life"] > 0
    /\ left' = [left EXCEPT !["life"] = @ - 1]
    /\ running' = [running EXCEPT ![c] = TRUE]
    /\ startRaised' = TRUE
    /\ UNCHANGED <<now, chanVars, queue, workerVars, destVars, prodVars,
                   ctlVars, nsent, msg, arrived, received,
                   stopReturned, shutdownReturned, auxHist,
                   simVars, pairVars>>

\* --------------------------------------- receive_command, receive_state
\* Variant of get_nowait() that hands out the first payload on an empty queue.
GetOrFirst(q) == IF q = <<>> THEN 1 ELSE Head(q)

\* What get_nowait() on a destination queue makes receive_* return: the
\* oldest entry, or None when queue.Empty is raised and caught.
GetNowait(q) == IF q = <<>> THEN NoMsg ELSE Head(q)

\* self.command_queue.get_nowait(), None on queue.Empty
ReceiveCommand ==
    /\ left["recv"] > 0
    /\ lastrecv' = [lastrecv EXCEPT !["o2r"] = GetNowait(command_queue)]
    /\ IF command_queue = <<>>
       THEN UNCHANGED <<command_queue, received>>
       ELSE /\ command_queue' = Tail(command_queue)
            /\ received' = [received EXCEPT !["o2r"] = Append(@, Head(command_queue))]
    /\ UNCHANGED <<now, chanVars, queue, running, workerVars, state_queue,
                   prodVars, ctlVars, nsent, left, msg, arrived,
                   stopReturned, shutdownReturned, startRaised,
                   configured, failed,
                   simVars, pairVars>>

\* self.state_queue.get_nowait(), None on queue.Empty
ReceiveState ==
    /\ left["recv"] > 0
    /\ lastrecv' = [lastrecv EXCEPT !["r2o"] = GetNowait(state_queue)]
    /\ IF state_queue = <<>>
       THEN UNCHANGED <<state_queue, received>>
       ELSE /\ state_queue' = Tail(state_queue)
            /\ received' = [received EXCEPT !["r2o"] = Append(@, Head(state_queue))]
    /\ UNCHANGED <<now, chanVars, queue, running, workerVars, command_queue,
                   prodVars, ctlVars, nsent, left, msg, arrived,
                   stopReturned, shutdownReturned, startRaised,
                   configured, failed,
                   simVars, pairVars>>

\* ------------------------------------------------------ the specification
Next ==
    \/ Tick
    \/ \E p \in Producers : SendCommand(p)
    \/ \E p \in Producers : SendState(p)
    \/ \E p \in Producers : SendTime(p)
    \/ \E p \in Producers : SendJitter(p)
    \/ \E p \in Producers : SendPut(p)
    \/ \E c \in Chan : WLoop(c)
    \/ \E c \in Chan : WHead(c)
    \/ \E c \in Chan : WGet(c)
    \/ \E c \in Chan : WCall(c)
    \/ \E c \in Chan : WCallRaise(c)
    \/ \E c \in Chan : WWake(c)
    \/ \E c \in Chan, a \in CondArgs : SetConditions(c, a)
    \/ \E a \in NetArgs : SetNetworkConditions(a)
    \/ SetLatency
    \/ SetJitter
    \/ SetPacketLoss
    \/ SetBandwidth
    \/ \E c \in Chan : Stop(c)
    \/ Shutdown
    \/ Join
    \/ \E c \in Chan : Start(c)
    \/ ReceiveCommand
    \/ ReceiveState

Spec == Init /\ [][Next]_vars

\* ------------------------------------------------------------- progress
\* Runs for the progress properties: traffic in both directions, one sink
\* callback that may raise, and at most one stop() or shutdown(), with the
\* default conditions; and traffic that is never stopped, with a latency of
\* one tick.
LiveScenarios ==
    { [calls |-> Calls(1, 1, 0, 1, 1, 0, 1), cond |-> DefaultArgs],
      [calls |-> Calls(MaxSends - 1, 0, 0, 0, 1, 0, 0), cond |-> LatencyArgs] }

LiveInit ==
    /\ \E sc \in LiveScenarios : NetInit(sc)
    /\ SimStart
    /\ PairStart(0, 0)

\* The steps of producer thread p inside send.
Producer(p) == SendTime(p) \/ SendJitter(p) \/ SendPut(p)

\* The steps of the worker thread of channel c.
Worker(c) ==
    WLoop(c) \/ WHead(c) \/ WGet(c) \/ WCall(c) \/ WCallRaise(c) \/ WWake(c)

LiveNext ==
    \/ Tick
    \/ \E p \in Producers : SendCommand(p)
    \/ \E p \in Producers : SendState(p)
    \/ \E p \in Producers : Producer(p)
    \/ \E c \in Chan : Worker(c)
    \/ \E c \in Chan : Stop(c)
    \/ Shutdown
    \/ Join

\* The threads are daemon threads of one process: each of them, and the
\* clock, keeps being scheduled.
LiveSpec ==
    /\ LiveInit
    /\ [][LiveNext]_vars
    /\ WF_vars(Tick)
    /\ WF_vars(Join)
    /\ \A p \in Producers : WF_vars(Producer(p))
    /\ \A c \in Chan : WF_vars(Worker(c))

\* ------------------------------------------ two runs of one channel
\* Two NetworkChannel objects are taken through the same calls in lock-step:
\* each send reads the same clock and gets the same values from
\* random.random() and random.uniform in both runs, each set_conditions call
\* passes the same latency, jitter and packet_loss, and the worker of each
\* run takes its step at the same clock reading.  Only the bandwidth
\* argument may differ.  The network and the simulator are left idle.
PairInit ==
    /\ NetInit(IdleScenario)
    /\ SimStart
    /\ PairStart(MaxSends, MaxConfigs)

\* The bandwidth arguments of the second run.
BandwidthArgs == {-1, 5, Infinity}

\* Variant of send in which a finite bandwidth delays the delivery by a tick.
ScheduledThrottled(k, t, r, o) ==
    IF r < k.packet_loss
    THEN [drop |-> TRUE, t |-> NoTime]
    ELSE [drop |-> FALSE,
          t |-> t + k.latency + (IF k.jitter > 0 THEN o ELSE 0)
                  + (IF k.bandwidth < Infinity THEN 1 ELSE 0)]

\* NetworkChannel.send on a channel with conditions k, called at clock
\* reading t, with r returned by random.random() and o by random.uniform:
\* the send is dropped, or the envelope gets the delivery time t.
Scheduled(k, t, r, o) ==
    IF r < k.packet_loss
    THEN [drop |-> TRUE, t |-> NoTime]
    ELSE [drop |-> FALSE,
          t |-> t + k.latency + (IF k.jitter > 0 THEN o ELSE 0)]

\* time.time() advances for both runs.
PairTick ==
    /\ ptime < MaxTime
    /\ ptime' = ptime + 1
    /\ UNCHANGED <<pair, pleft, netVars, simVars>>

\* set_conditions(latency, jitter, packet_loss, bandwidth) in both runs, the
\* second run with bandwidth b.
PairSetConditions(a, b) ==
    /\ pleft.confs > 0
    /\ pleft' = [pleft EXCEPT !.confs = @ - 1]
    /\ pair' = [x \in Runs |->
                  [pair[x] EXCEPT !.cond =
                      Clamped(IF x = "a" THEN a ELSE [a EXCEPT !.bandwidth = b])]]
    /\ UNCHANGED <<ptime, netVars, simVars>>

\* send(data, callback) in both runs, with loss draw r and jitter draw o.
PairSend(r, o) ==
    /\ pleft.sends > 0
    /\ pleft' = [pleft EXCEPT !.sends = @ - 1]
    /\ pair' = [x \in Runs |->
                  LET s == Scheduled(pair[x].cond, ptime, r, o)
                      id == Len(pair[x].sched) + 1
                  IN  [pair[x] EXCEPT
                          !.sched = Append(@, s),
                          !.heap = IF s.drop THEN @
                                   ELSE QueuePut(@, Entry(s.t, id)).heap]]
    /\ UNCHANGED <<ptime, netVars, simVars>>

\* One round of _process_queue in both runs: the head that is due is taken
\* from the pending set and passed to the callback.
PairWorker ==
    /\ \E x \in Runs :
          pair[x].heap # <<>> /\ Due(ptime, pair[x].heap[1].t)
    /\ pair' = [x \in Runs |->
                  IF pair[x].heap # <<>> /\ Due(ptime, pair[x].heap[1].t)
                  THEN LET g == QueueGet(pair[x].heap)
                       IN  [pair[x] EXCEPT
                               !.heap = g.heap,
                               !.order = IF g.err THEN @ ELSE Append(@, g.item.id)]
                  ELSE pair[x]]
    /\ UNCHANGED <<ptime, pleft, netVars, simVars>>

\* The jitter draws of a send: the same jitter is set in both runs.
PairOffsets ==
    IF pair["a"].cond.jitter > 0 THEN Offsets(pair["a"].cond.jitter) ELSE {0}

PairNext ==
    \/ PairTick
    \/ \E a \in CondArgs \cup {LatencyArgs} : \E b \in BandwidthArgs :
          PairSetConditions(a, b)
    \/ \E r \in Draws : \E o \in PairOffsets : PairSend(r, o)
    \/ PairWorker

PairSpec == PairInit /\ [][PairNext]_vars


\* ------------------------------------------------------------ properties
\* Where message i is: the positions of the channel's heap holding it, the
\* worker's hand, the channel's sink invocations.
Pending(c, i) == {k \in 1..Len(queue[c]) : queue[c][k].id = i}
InHand(c, i) == wpc[c] = "call" /\ whand[c].id = i
Arrivals(c, i) == {k \in 1..Len(arrived[c]) : arrived[c][k].id = i}
Copies(i) ==
    LET c == msg[i].ch
    IN  Cardinality(Pending(c, i)) + (IF InHand(c, i) THEN 1 ELSE 0)
          + Cardinality(Arrivals(c, i))

\* C1: the sink callback is never invoked for an envelope while the clock is
\* earlier than the envelope's scheduled delivery time, also when the
\* envelope was put between the worker's peek and its queue.get().
C1_NoEarlyDelivery ==
    \A c \in Chan : wpc[c] = "call" => whand[c].t <= now

\* C1 witness: the worker is about to invoke the sink for an envelope that
\* was not the head it peeked: it was put after the peek, with an earlier
\* delivery time.
C1_Witness ==
    \E c \in Chan : wpc[c] = "call" /\ whand[c].t < wtime[c]

\* C2: no non-dropped message is lost or duplicated: a message that was put
\* on the queue is, at every moment, exactly once either pending, in the
\* worker's hand or handed to the sink; any other message is in none of them.
C2_ExactlyOnce ==
    \A i \in MsgIds : Copies(i) = (IF Queued(i) THEN 1 ELSE 0)

\* C3: on a channel that is running and never stopped every envelope put on
\* the pending set is eventually delivered; in the form a finite run
\* refutes: while the channel runs, an envelope leaves the pending set only
\* into the worker's hand, on its way to the sink.
C3_LeavesOnlyToSink ==
    [][\A c \in Chan : \A k \in 1..Len(queue[c]) :
          LET i == queue[c][k].id
          IN  (/\ running[c] /\ running'[c]
               /\ \A j \in 1..Len(queue'[c]) : queue'[c][j].id # i)
                => (wpc'[c] = "call" /\ whand'[c].id = i)]_vars

\* C4: within one channel the envelopes are handed to the sink in
\* nondecreasing order of scheduled delivery time.
C4_NondecreasingDelivery ==
    \A c \in Chan : \A j, k \in 1..Len(arrived[c]) :
        j < k => arrived[c][j].t <= arrived[c][k].t

\* C5: two messages put on the same channel with identical delivery times
\* are both delivered, in the order in which they were put.
Lost(i) == Queued(i) /\ Copies(i) = 0
C5_TiesInSendOrder ==
    \A i, j \in MsgIds :
        (/\ Queued(i) /\ Queued(j)
         /\ msg[i].ch = msg[j].ch
         /\ msg[i].t = msg[j].t
         /\ msg[i].seq < msg[j].seq)
        => /\ ~Lost(i)
           /\ ~Lost(j)
           /\ \A k \in Arrivals(msg[j].ch, j) :
                 \E m \in Arrivals(msg[i].ch, i) : m < k

\* The payloads the sink was invoked with and put on its destination queue,
\* in order.
ArrivedIds(c) ==
    LET Put(e) == e.id \notin failed
        puts == SelectSeq(arrived[c], Put)
    IN  [k \in 1..Len(puts) |-> puts[k].id]
Dest(c) == IF c = "o2r" THEN command_queue ELSE state_queue

\* C6: after shutdown() has returned neither destination queue gains an
\* entry, and what was delivered is returned by receive_command /
\* receive_state in arrival order: what was received, followed by what is
\* still queued, is the sequence of arrivals.
C6_NoDeliveryAfterShutdown ==
    [][shutdownReturned =>
          \A c \in Chan :
             /\ arrived'[c] = arrived[c]
             /\ \/ Dest(c)' = Dest(c)
                \/ Dest(c) # <<>> /\ Dest(c)' = Tail(Dest(c))
             /\ received'[c] \o Dest(c)' = ArrivedIds(c)]_vars

\* C6 witness: shutdown() has returned with an envelope still pending on
\* operator_to_robot and a delivered state still waiting in state_queue.
C6_Witness ==
    /\ shutdownReturned
    /\ queue["o2r"] # <<>>
    /\ state_queue # <<>>

\* C7: once stop() has returned on a channel its worker has left
\* _process_queue: it is neither in its loop nor in a sink callback.
C7_WorkerExited ==
    \A c \in Chan : stopReturned[c] => wpc[c] = "done"

\* C7 witness: stop() has returned on a channel that still has an envelope
\* pending.
C7_Witness ==
    \E c \in Chan : stopReturned[c] /\ queue[c] # <<>>

\* C8: a send called on a channel whose stop() has returned leaves the
\* pending set unchanged: its envelope is never put on the queue.
C8_StoppedSendNotQueued ==
    \A i \in MsgIds : msg[i].down => ~Queued(i)

\* C9: once stop() has returned on a channel, the running flag stays false.
C9_StaysStopped ==
    \A c \in Chan : stopReturned[c] => ~running[c]

\* C10: the delivery time that send puts on the queue is never earlier than
\* the clock at the moment send was called.
C10_DeliveryNotBeforeSend ==
    \A p \in Producers : ppc[p] = "put" => pcalled[p] <= pdt[p]

\* C11: every send takes its loss decision and computes its delivery time
\* from one consistent set of conditions: the packet_loss, latency and jitter
\* that a send has read are those of one set of conditions the channel was
\* given, never a mixture of two.
C11_ConsistentConditions ==
    \A p \in Producers :
        ppc[p] = "put" =>
            \E r \in configured[pch[p]] :
                /\ r.packet_loss = pread[p].loss
                /\ r.latency = pread[p].latency
                /\ r.jitter = pread[p].jitter

\* C12: in every reachable state, whatever arguments set_conditions and
\* set_network_conditions were called with, every channel has latency >= 0,
\* jitter >= 0, 0 <= packet_loss <= 1 and bandwidth >= 0.
C12_ConditionsInRange ==
    \A c \in Chan :
        /\ latency[c] >= 0
        /\ jitter[c] >= 0
        /\ 0 <= packet_loss[c] /\ packet_loss[c] <= ProbOne
        /\ bandwidth[c] >= 0

\* C12 witness: set_conditions has returned from a call whose four arguments
\* were all out of range, and the channel holds the clamped values.
C12_Witness ==
    /\ cpc = "idle"
    /\ \E c \in Chan :
          /\ Clamped(BadArgs) \in configured[c]
          /\ packet_loss[c] = ProbOne
          /\ bandwidth[c] = 0

\* C13: when set_network_conditions returns, operator_to_robot and
\* robot_to_operator hold identical conditions, and on both the jitter is 10%
\* of the stored latency (jitter is kept in 1/JitterScale ticks).
C13_IdenticalAfterNetworkConditions ==
    [][(cop = "set_network_conditions" /\ cpc' = "idle") =>
          /\ \A c, d \in Chan :
                /\ latency'[c] = latency'[d]
                /\ jitter'[c] = jitter'[d]
                /\ packet_loss'[c] = packet_loss'[d]
                /\ bandwidth'[c] = bandwidth'[d]
          /\ \A c \in Chan : 10 * jitter'[c] = JitterScale * latency'[c]]_vars

\* C13 witness: set_network_conditions has returned from a call with a
\* positive latency, which both channels now hold.
C13_Witness ==
    /\ cpc = "idle"
    /\ \A c \in Chan : latency[c] = 2 /\ jitter[c] > 0 /\ bandwidth[c] = 5

\* C14: a send is dropped when its draw is below the loss probability: a
\* send made while packet_loss is 1.0 is dropped and one made while it is 0
\* is not; on a channel whose packet_loss was 1.0 all along the sink is never
\* invoked, the destination queue stays empty and receive_* reports empty.
C14_DropByLossProbability ==
    [][/\ nsent' = nsent + 1 =>
            LET i == nsent'
                c == msg'[i].ch
            IN  /\ packet_loss[c] = ProbOne => msg'[i].st = "dropped"
                /\ packet_loss[c] = 0 => msg'[i].st # "dropped"
       /\ \A c \in Chan :
            (\A r \in configured[c] : r.packet_loss = ProbOne) =>
                /\ arrived'[c] = <<>>
                /\ Dest(c)' = <<>>
                /\ lastrecv'[c] \in {NoCall, NoMsg}]_vars

\* C14 witness: with packet_loss 1.0 on both channels every send_command and
\* send_state call of the run was made and dropped, and receive_command and
\* receive_state have both reported empty.
C14_Witness ==
    /\ \A c \in Chan : \A r \in configured[c] : r.packet_loss = ProbOne
    /\ nsent = MaxSends
    /\ \A i \in 1..MaxSends : msg[i].st = "dropped"
    /\ \A c \in Chan : lastrecv[c] = NoMsg

\* C15: receive_command / receive_state on an empty destination queue
\* returns None in one step, whatever is pending, and changes nothing else:
\* not the queues, not the channels.
C15_EmptyReceiveReturnsNone ==
    [][\A c \in Chan :
          (Dest(c) = <<>> /\ lastrecv'[c] # lastrecv[c]) =>
              /\ lastrecv'[c] = NoMsg
              /\ UNCHANGED <<now, chanVars, queue, running, workerVars,
                             destVars, prodVars, ctlVars, nsent, left, msg,
                             arrived, received, stopReturned,
                             shutdownReturned, startRaised, configured,
                             failed>>]_vars

\* C15 witness: a receive call has returned None on an empty destination
\* queue while an envelope is pending on the channel that feeds it.
C15_Witness ==
    \E c \in Chan :
        lastrecv[c] = NoMsg /\ Dest(c) = <<>> /\ queue[c] # <<>>

\* C16: each destination queue is a FIFO of arrival: what receive_command
\* (receive_state) has returned so far, followed by what is still queued, is
\* the sequence of payloads in the order the worker handed them to the sink,
\* and no payload occurs in it twice.
C16_FifoOfArrival ==
    \A c \in Chan :
        /\ received[c] \o Dest(c) = ArrivedIds(c)
        /\ \A j, k \in 1..Len(ArrivedIds(c)) :
              j < k => ArrivedIds(c)[j] # ArrivedIds(c)[k]

\* C16 witness: a command has been received and another, delivered after it
\* arrived, waits in command_queue.
C16_Witness ==
    received["o2r"] # <<>> /\ command_queue # <<>>

\* C17: on a channel that holds latency L and jitter j (its conditions were
\* never changed), a message that is not dropped and whose send read the
\* clock at t is given a delivery time within [t + L - j/2, t + L + j/2]
\* (j is kept in 1/JitterScale ticks).
C17_DeliveryTimeWithinJitter ==
    \A p \in Producers :
        (ppc[p] = "put" /\ Cardinality(configured[pch[p]]) = 1) =>
            LET c == pch[p]
                d == pdt[p] - pread[p].time - latency[c]
            IN  /\ -jitter[c] <= 2 * JitterScale * d
                /\ 2 * JitterScale * d <= jitter[c]

\* C17 witness: a send on a channel with a positive jitter is about to put
\* a delivery time that the jitter moved away from t + L.
C17_Witness ==
    \E p \in Producers :
        /\ ppc[p] = "put"
        /\ Cardinality(configured[pch[p]]) = 1
        /\ jitter[pch[p]] > 0
        /\ pdt[p] # pread[p].time + latency[pch[p]]

\* C18: on a running channel whose jitter was 0 all along, a message that
\* was not dropped is handed to the sink at its send time plus the latency,
\* whatever else is pending: it is not handed over before that time, and
\* until it is handed over it stays pending or in the worker's hand.
C18_JitterFreeDelivered ==
    \A i \in MsgIds :
        LET c == msg[i].ch
        IN  (/\ Queued(i)
             /\ running[c] /\ ~stopReturned[c]
             /\ \A r \in configured[c] : r.jitter = 0)
            => /\ InHand(c, i) => msg[i].t <= now
               /\ ~Lost(i)

\* The case of C19: operator_to_robot kept one latency, jitter 0 and loss 0,
\* one thread sends the commands one after another, and the commands put so
\* far read increasing clock values, so that their delivery times differ.
SentAtIncreasingTimes ==
    /\ left["threads"] = 1
    /\ Cardinality(configured["o2r"]) = 1
    /\ jitter["o2r"] = 0 /\ packet_loss["o2r"] = 0
    /\ \A i, j \in MsgIds :
          (i < j /\ Queued(i) /\ Queued(j) /\ msg[i].ch = "o2r" /\ msg[j].ch = "o2r")
              => msg[i].t < msg[j].t

\* C19: with constant latency, jitter 0 and loss 0, commands sent one after
\* another at increasing times reach receive_command in send order, none
\* skipped, and none is receivable before its send time plus the latency.
C19_InOrderAfterLatency ==
    SentAtIncreasingTimes =>
        /\ \A p \in Producers :
              (ppc[p] = "put" /\ pch[p] = "o2r") =>
                  pdt[p] = pread[p].time + latency["o2r"]
        /\ \A i \in MsgIds :
              (Queued(i) /\ msg[i].ch = "o2r") => ~Lost(i)
        /\ \A k \in 1..Len(arrived["o2r"]) :
              /\ arrived["o2r"][k].t <= now
              /\ \A i \in MsgIds :
                    (Queued(i) /\ msg[i].ch = "o2r" /\ i < arrived["o2r"][k].id)
                        => \E m \in 1..(k - 1) : arrived["o2r"][m].id = i
        /\ received["o2r"] \o command_queue = ArrivedIds("o2r")

\* C19 witness: with a latency of one tick two commands sent at increasing
\* times have both been returned by receive_command.
C19_Witness ==
    /\ SentAtIncreasingTimes
    /\ latency["o2r"] > 0
    /\ Len(received["o2r"]) >= 2

\* stop() was called on the channel: it has returned or waits in join().
StopCalled(c) == stopReturned[c] \/ (cpc = "join" /\ cch = c)

\* C20: an exception raised by the sink callback does not terminate the
\* worker: the worker leaves _process_queue only after stop() was called.
C20_WorkerSurvivesSinkException ==
    \A c \in Chan : wpc[c] = "done" => StopCalled(c)

\* C20 witness: the sink callback raised for one envelope, and the worker,
\* still in its loop, has since handed the next envelope to the sink.
C20_Witness ==
    \E c \in Chan :
        /\ wpc[c] # "done"
        /\ Len(arrived[c]) >= 2
        /\ arrived[c][1].id \in failed
        /\ arrived[c][2].id \notin failed

\* C21: reconfiguration is not retroactive.  A step of set_conditions or
\* set_network_conditions leaves the pending set, the worker's hand and what
\* was delivered unchanged; every envelope, pending or delivered, carries
\* the delivery time computed at its send; and a send issued after the last
\* configuration call returned uses the conditions the channel then holds.
C21_NonRetroactive ==
    [][/\ ((cop \in ConfigOps \/ cop' \in ConfigOps) /\ cpc' # cpc) =>
             /\ queue' = queue
             /\ whand' = whand
             /\ arrived' = arrived
             /\ destVars' = destVars
       /\ \A c \in Chan :
             /\ \A k \in 1..Len(queue'[c]) :
                   queue'[c][k].t = msg'[queue'[c][k].id].t
             /\ \A k \in 1..Len(arrived'[c]) :
                   arrived'[c][k].t = msg'[arrived'[c][k].id].t
       /\ \A p \in Producers :
             (/\ ppc'[p] = "put"
              /\ pread'[p].quiet
              /\ pread'[p].conf = left'["conf"]) =>
                 /\ pread'[p].loss = packet_loss'[pch'[p]]
                 /\ pread'[p].latency = latency'[pch'[p]]
                 /\ pread'[p].jitter = jitter'[pch'[p]]]_vars

\* C21 witness: set_network_conditions has returned, operator_to_robot now
\* has a latency of two ticks, and an envelope scheduled before the call is
\* still pending with its earlier delivery time.
C21_Witness ==
    /\ cpc = "idle"
    /\ latency["o2r"] = 2
    /\ \E k \in 1..Len(queue["o2r"]) : queue["o2r"][k].t < 2

\* C22: send and receive never block on each other or on the worker.  A
\* send that has started can always take its next step, whatever the worker
\* and the other threads are doing, and so returns without waiting for the
\* delivery; a receive can always be carried out.
C22_NonBlocking ==
    /\ \A p \in Producers :
          /\ ppc[p] = "time" => ENABLED SendTime(p)
          /\ ppc[p] = "jitter" => ENABLED SendJitter(p)
          /\ ppc[p] = "put" => ENABLED SendPut(p)
    /\ left["recv"] > 0 => (ENABLED ReceiveCommand) /\ (ENABLED ReceiveState)

\* C22 witness: a send is about to put its envelope while an earlier one is
\* still pending, the worker sleeps, and the consumer is polling.
C22_Witness ==
    /\ left["recv"] > 0
    /\ \E p \in Producers :
          /\ ppc[p] = "put"
          /\ queue[pch[p]] # <<>>
          /\ wpc[pch[p]] = "sleep"

\* C23: stop() and shutdown() are safe to repeat.  On a channel whose stop()
\* has already returned, a further stop (direct or through shutdown) can
\* return at once, and each of its steps leaves the channel stopped with its
\* worker exited, the same pending set and the same destination queues.
C23_StopIdempotent ==
    [][\A c \in Chan :
         /\ (cpc = "join" /\ cch = c /\ stopReturned[c]) => ENABLED Join
         /\ (/\ stopReturned[c]
             /\ cpc' = "join" /\ cch' = c
             /\ (cpc = "idle" \/ cch # c)) =>
                /\ ~running'[c]
                /\ wpc'[c] = "done"
                /\ queue'[c] = queue[c]
                /\ destVars' = destVars
         /\ (/\ stopReturned[c]
             /\ cpc = "join" /\ cch = c
             /\ (cpc' = "idle" \/ cch' # c)) =>
                /\ ~running'[c]
                /\ wpc'[c] = "done"
                /\ stopReturned'[c]
                /\ queue'[c] = queue[c]
                /\ destVars' = destVars]_vars

\* C23 witness: a second stop has been called on a stopped channel that
\* still holds a pending envelope, and is at its join.
C23_Witness ==
    /\ cpc = "join"
    /\ stopReturned[cch]
    /\ queue[cch] # <<>>

\* C30: an earlier envelope is not held back by the wait for the head.  If
\* the worker suspended on a head with deadline D, and an envelope with an
\* earlier deadline has since been inserted and has come due, then the
\* worker's wait is over or ends before D: the new envelope's delivery is
\* not postponed until the wait for D ends.
C30_EarlierInsertNotPostponed ==
    \A c \in Chan :
        (/\ wpc[c] = "sleep"
         /\ wtime[c] # NoTime
         /\ \E k \in 1..Len(queue[c]) :
               /\ queue[c][k].t < wtime[c]
               /\ Due(now, queue[c][k].t)) =>
            (now >= wwake[c] \/ wwake[c] < wtime[c])

\* C24: immediately after add_robot(id, type, pose), get_robot_state(id)
\* returns a state whose pose is the pose passed to add_robot and whose
\* joint_states list is empty.
C24_StateAfterAddRobot ==
    lastcall.op = "add_robot" =>
        /\ StateOf(lastcall.id).pose = lastcall.pose
        /\ StateOf(lastcall.id).joint_states = <<>>

\* C25: get_robot_state and apply_command with an id that is not registered
\* signal KeyError and leave robots, environment objects, time and the
\* bodies in the physics engine unchanged.
C25_UnknownRobotKeyError ==
    [][\A id \in RobotIds :
         (/\ id \notin DOMAIN robots
          /\ lastcall'.op \in {"get_robot_state", "apply_command"}
          /\ lastcall'.id = id) =>
             /\ lastcall'.raised = "KeyError"
             /\ UNCHANGED <<robots, environment_objects, time, bodies>>]_vars

\* C25 witness: a call with an unregistered id has raised KeyError in a
\* simulator that holds a robot and an environment object and has advanced.
C25_Witness ==
    /\ lastcall.raised = "KeyError"
    /\ DOMAIN robots # {}
    /\ environment_objects # <<>>
    /\ time > 0

\* C26: add_environment_object appends exactly one entry and returns its
\* id, which is the entry's index; after any sequence of additions and
\* removals every entry i of environment_objects has id i (indices from 0).
C26_ObjectIdIsIndex ==
    [][/\ (/\ lastcall'.op = "add_environment_object"
           /\ <<lastcall, environment_objects>>' # <<lastcall, environment_objects>>) =>
              /\ Len(environment_objects') = Len(environment_objects) + 1
              /\ SubSeq(environment_objects', 1, Len(environment_objects))
                    = environment_objects
              /\ lastcall'.ret = Len(environment_objects)
              /\ environment_objects'[Len(environment_objects')].id = lastcall'.ret
       /\ \A k \in 1..Len(environment_objects') :
              environment_objects'[k].id = k - 1]_vars

\* C26 witness: an object was added after the first one had been removed.
C26_Witness ==
    /\ lastcall.op = "add_environment_object"
    /\ Len(environment_objects) = 2
    /\ environment_objects[1].removed
    /\ ~environment_objects[2].removed

\* C27: step(dt) advances time by exactly dt, and as long as add_robot has
\* not been called since construction or reset, time is the sum of the dt
\* values passed to step.
C27_TimeIsSumOfSteps ==
    [][/\ lastcall'.op = "step" => time' - time = stepsum' - stepsum
       /\ adds' = 0 => time' = stepsum']_vars

\* C27 witness: several steps, and no add_robot, since the last reset.
C27_Witness ==
    /\ lastcall.op = "step"
    /\ adds = 0
    /\ stepsum = MaxSimTime

C31_WaitKeyedToDeadline ==
    \A c \in Chan :
        wpc[c] = "sleep" =>
            /\ wtime[c] # NoTime => wwake[c] = wtime[c]
            /\ (wtime[c] = NoTime /\ queue[c] # <<>>) => now >= wwake[c]
            /\ ~running[c] => now >= wwake[c]

\* C32: stop() on a running channel always terminates.  A worker that
\* tests the running flag after stop() has cleared it leaves its loop
\* without taking anything from the pending set; a worker that has left
\* delivers nothing more; and every stop() in progress returns.
C32_StopTerminates ==
    /\ [][\A c \in Chan :
            /\ (/\ wpc[c] \in {"loop", "sleep"}
                /\ ~running[c]
                /\ wpc'[c] # wpc[c]) =>
                   /\ wpc'[c] = "done"
                   /\ queue'[c] = queue[c]
                   /\ arrived'[c] = arrived[c]
            /\ wpc[c] = "done" =>
                   /\ wpc'[c] = "done"
                   /\ arrived'[c] = arrived[c]]_vars
    /\ \A c \in Chan :
          (cpc = "join" /\ cch = c) ~> ~(cpc = "join" /\ cch = c)

\* C32 witness: stop() has returned on a channel that still holds an
\* envelope enqueued before the return.
C32_Witness ==
    \E c \in Chan :
        /\ stopReturned[c]
        /\ \E k \in 1..Len(queue[c]) : ~msg[queue[c][k].id].down

\* C33: send never surfaces an error to the producer: no send call ends
\* with an exception, whatever the pending set holds, in particular when
\* the new envelope's delivery time equals that of a pending envelope.
C33_SendNeverRaises ==
    \A i \in MsgIds : msg[i].st # "raised"

\* The payloads of the entries of a pending set.
QueueIds(h) == {h[k].id : k \in 1..Len(h)}

\* C34: every envelope that leaves the pending set is, at the moment of its
\* removal, a minimum of the pending set by scheduled delivery time.
C34_RemovesMinimum ==
    [][\A c \in Chan : \A k \in 1..Len(queue[c]) :
          queue[c][k].id \notin QueueIds(queue'[c]) =>
              \A j \in 1..Len(queue[c]) : queue[c][j].t >= queue[c][k].t]_vars

\* C35: a send selected for loss has no observable effect.  The call is
\* over at once without an error, and leaves the pending sets, the
\* conditions, the workers, the destination queues and the sends in
\* progress unchanged; the payload is never enqueued or delivered later.
C35_DropHasNoEffect ==
    [][\A i \in MsgIds :
         /\ (msg[i].st = "unsent" /\ msg'[i].st = "dropped") =>
               UNCHANGED <<queue, chanVars, running, workerVars, destVars,
                           prodVars, arrived, received>>
         /\ msg[i].st = "dropped" =>
               /\ msg'[i].st = "dropped"
               /\ \A c \in Chan : i \notin QueueIds(queue'[c])
               /\ \A p \in Producers : pid'[p] # i]_vars

\* C35 witness: a send was dropped while an envelope was pending.
C35_Witness ==
    /\ \E i \in MsgIds : msg[i].st = "dropped"
    /\ \E c \in Chan : queue[c] # <<>>

\* The conditions channel c holds.
Conditions(c) ==
    [latency |-> latency[c], jitter |-> jitter[c],
     packet_loss |-> packet_loss[c], bandwidth |-> bandwidth[c]]

\* C36: a channel that was never given conditions holds latency 0, jitter 0,
\* loss 0 and unbounded bandwidth, and when set_conditions returns the
\* channel holds exactly the clamped arguments of that call, whatever it held
\* before: the same call again changes nothing and the last call wins.
C36_ReplacedWholesale ==
    /\ [](\A c \in Chan :
            configured[c] = {Clamped(DefaultArgs)} => Conditions(c) = DefaultArgs)
    /\ [][\A c \in Chan :
              (cpc = "sc_bandwidth" /\ cch = c /\ cpc' # cpc) =>
                  Conditions(c)' = Clamped(cargs)]_vars

\* C36 witness: a channel configured with a latency has since been through
\* two further set_conditions calls with different arguments, the last one
\* with a smaller latency, and that call has returned.
C36_Witness ==
    \E c \in Chan :
        /\ cpc = "idle"
        /\ left["conf"] = 0
        /\ Cardinality(configured[c]) = MaxReconfigs + 1
        /\ Clamped(LossyArgs) \in configured[c]
        /\ latency[c] < Clamped(LossyArgs).latency

\* The payloads a sequence of destination-queue entries holds.
SeqIds(q) == {q[k] : k \in 1..Len(q)}

\* C37: the two directions are independent.  A payload passed to
\* send_command is only ever pending on operator_to_robot, waiting in
\* command_queue or returned by receive_command, and a payload passed to
\* send_state only on robot_to_operator, in state_queue or returned by
\* receive_state; and a step that changes the pending set or the destination
\* queue of one direction leaves those of the other direction unchanged.
C37_DirectionsIndependent ==
    /\ [](\A c \in Chan :
            \A i \in QueueIds(queue[c]) \cup SeqIds(Dest(c)) \cup SeqIds(received[c]) :
                msg[i].ch = c)
    /\ [][\A c, d \in Chan :
            (c # d /\ (queue'[c] # queue[c] \/ Dest(c)' # Dest(c)
                       \/ received'[c] # received[c])) =>
                /\ queue'[d] = queue[d]
                /\ Dest(d)' = Dest(d)
                /\ received'[d] = received[d]]_vars

\* C37 witness: a command has been returned by receive_command while a state
\* sent with send_state waits in state_queue.
C37_Witness ==
    /\ received["o2r"] # <<>>
    /\ state_queue # <<>>
    /\ \A i \in SeqIds(state_queue) : msg[i].ch = "r2o"

\* Two pending envelopes of channel c have the same delivery time.
TieIn(c) ==
    \E j, k \in 1..Len(queue[c]) : j # k /\ queue[c][j].t = queue[c][k].t

\* C38: when the constructor returns both channels run, each with its worker
\* in the loop, and without any start call an envelope put on a channel is
\* eventually handed to the sink, unless stop is called on the channel or
\* the pending set holds equal delivery times (the failure of C5).  The
\* clock of the model ends at MaxTime, so the envelope's time lies before it.
C38_RunningFromConstruction ==
    /\ \A c \in Chan : running[c] /\ wpc[c] = "loop"
    /\ \A c \in Chan : \A i \in MsgIds :
          (\E k \in 1..Len(queue[c]) :
               queue[c][k].id = i /\ queue[c][k].t <= MaxTime)
          ~> (\/ \E k \in 1..Len(arrived[c]) : arrived[c][k].id = i
              \/ StopCalled(c)
              \/ TieIn(c))

\* C38 witness: an envelope was handed to the sink of a channel on which
\* neither start nor stop was ever called.
C38_Witness ==
    \E c \in Chan :
        /\ arrived[c] # <<>>
        /\ ~startRaised
        /\ ~StopCalled(c)
        /\ running[c]

\* How many times payload i was handed to the sink of channel c.
Handed(c, i) == Cardinality({k \in 1..Len(arrived[c]) : arrived[c][k].id = i})

\* C39: delivery is at-most-once even on failure.  The envelope the worker
\* is about to pass to the sink is no longer in the pending set, and an
\* envelope whose sink callback raised was handed to the sink once, is not
\* in the pending set, not in the worker's hand, and in neither the
\* destination queue nor what the receive calls returned.
C39_AtMostOnceOnFailure ==
    \A c \in Chan :
        /\ wpc[c] = "call" => whand[c].id \notin QueueIds(queue[c])
        /\ \A i \in failed :
              msg[i].ch = c =>
                  /\ Handed(c, i) = 1
                  /\ i \notin QueueIds(queue[c])
                  /\ whand[c].id # i
                  /\ i \notin SeqIds(Dest(c)) \cup SeqIds(received[c])

\* C39 witness: a sink callback raised, and the worker has since found the
\* pending set empty and gone to sleep.
C39_Witness ==
    \E c \in Chan :
        /\ \E i \in failed : msg[i].ch = c
        /\ wpc[c] = "sleep"
        /\ queue[c] = <<>>

====
